---- MODULE Spec2Model ----
\* Model of pykernel_mcp: the asyncio tool handlers execute_python,
\* restart_kernel and KernelState.ensure_started (src/src/pykernel_mcp/server.py)
\* running as cooperative tasks over one shared KernelState, the Jupyter
\* worker processes they spawn, and the clients' iopub queues.
\* One action = one task running from one await to the next.
EXTENDS Integers, Sequences, FiniteSets, TLC

VARIABLES
    km,          \* state.km: id of the AsyncKernelManager, None when unset
    kc,          \* state.kc: id of the kernel client, None when unset
    kernel_id,   \* state.kernel_id: a uuid, modelled as a fresh number
    start_time,  \* state.start_time
    uuids,       \* number of uuid4() values drawn for kernel_id so far
    clock,       \* time.time()
    wstate,      \* per manager: state of its worker process
    shell,       \* per manager: execute requests not yet picked up by the worker
    cur,         \* per manager: messages the worker still has to publish for its current request
    ns,          \* per manager: msg_ids of the requests that defined x in the worker's namespace
    clients,     \* per client: the manager it was created from (km.client())
    iopub,       \* per client: messages published by the worker, not yet received
    sent,        \* history: one entry per kc.execute, indexed by msg_id
    task,        \* per caller task: position and locals of its current tool call
    active,      \* tasks that issue calls
    codes,       \* the code strings the callers submit
    calls        \* number of tool calls started, per tool

vars == <<km, kc, kernel_id, start_time, uuids, clock, wstate, shell, cur, ns,
          clients, iopub, sent, task, active, codes, calls>>

\* ---------------------------------------------------------------- bounds
MaxCalls == 3

None == 0
Tasks == {1, 2}

\* ---------------------------------------------------------------- constants of the code
IMPORTS == "imports"
MATPLOTLIB_INLINE == "%matplotlib inline"
TimeoutNotice == [src |-> None, val |-> "Execution timed out after 30 seconds"]

\* ---------------------------------------------------------------- the worker (IPython kernel)
Text(m, v) == [src |-> m, val |-> v]
Msg(m, ty, es, tx, tb, png) ==
    [parent |-> m, msg_type |-> ty, execution_state |-> es,
     text |-> tx, traceback |-> tb, png |-> png]
Busy(m) == Msg(m, "status", "busy", <<>>, <<>>, <<>>)
Idle(m) == Msg(m, "status", "idle", <<>>, <<>>, <<>>)
Stream(m, v) == Msg(m, "stream", "", <<Text(m, v)>>, <<>>, <<>>)
ExecuteResult(m, v) == Msg(m, "execute_result", "", <<Text(m, v)>>, <<>>, <<>>)
ErrorMsg(m, tb) == Msg(m, "error", "", <<>>, tb, <<>>)
DisplayData(m, png) == Msg(m, "display_data", "", <<>>, <<>>, png)

\* The messages a worker publishes for request m running code c, when x is
\* defined (hasx) or not in its namespace.
\*   setx:  x = 1; print("a")        getx: x
\*   fault: prints "a", raises, and its stderr "b" is flushed after the error
\*   plot:  a figure and a display without a png
\* Every other code (the priming statements) is silent.
Program(c, m, hasx) ==
    CASE c = "setx"  -> <<Stream(m, "a"), Idle(m)>>
      [] c = "getx"  -> IF hasx
                        THEN <<ExecuteResult(m, "x"), Idle(m)>>
                        ELSE <<ErrorMsg(m, <<Text(m, "NameError")>>), Idle(m)>>
      [] c = "fault" -> <<Busy(m), Stream(m, "a"),
                          ErrorMsg(m, <<Text(m, "tb1"), Text(m, "tb2")>>),
                          Stream(m, "b"), Idle(m)>>
      [] c = "plot"  -> <<DisplayData(m, <<Text(m, "png")>>),
                          DisplayData(m, <<>>), Idle(m)>>
      [] OTHER       -> <<Idle(m)>>

\* pykernel_mcp.py:184-200  what kernel_status returns; `at` and `quiet`
\* record the number of execute_python and restart_kernel calls entered so
\* far and whether none of them was in progress when the report was made.
NoReport ==
    [made |-> FALSE, running |-> FALSE, id |-> None, up |-> 0, at |-> 0, quiet |-> FALSE]

\* ---------------------------------------------------------------- KernelState.__init__
NoTask ==
    [pc |-> "idle", op |-> "", code |-> "", msg_id |-> None,
     outputs |-> <<>>, errors |-> <<>>, images |-> <<>>,
     aw |-> None, raisedAt |-> "", how |-> "",
     res_kid |-> None, res_up |-> 0, res_images |-> <<>>,
     rep |-> NoReport, prev |-> NoReport,
     kid0 |-> None, km0 |-> None, mid0 |-> 0, mid1 |-> 0,
     prevTimeout |-> FALSE, late |-> FALSE]

InitState ==
    /\ km = None
    /\ kc = None
    /\ kernel_id = 1
    /\ uuids = 1
    /\ clock = 0
    /\ start_time = clock
    /\ wstate = <<>>
    /\ shell = <<>>
    /\ cur = <<>>
    /\ ns = <<>>
    /\ clients = <<>>
    /\ iopub = <<>>
    /\ sent = <<>>
    /\ task = [t \in Tasks |-> NoTask]
    /\ calls = [execute |-> 0, restart |-> 0]

Init == InitState /\ active = Tasks /\ codes = {"setx", "getx"}
InitSeq == InitState /\ active = {1} /\ codes = {"setx", "getx", "fault", "plot"}


\* ---------------------------------------------------------------- helpers of the handlers
Ended(r) == r.pc \in {"idle", "done", "raised"}
\* A caller not inside a call issues the next one. The callers are
\* interchangeable: the first call of a run is issued by caller 1.
CanCall(t) ==
    /\ t \in active /\ Ended(task[t])
    /\ calls.execute + calls.restart < MaxCalls
    /\ (t = 1 \/ calls.execute + calls.restart > 0)

\* Locals of a freshly entered tool call; kid0, km0 and mid0 remember the
\* session as the call found it, prevTimeout whether the caller's previous
\* call ended by timeout.
NewCall(t, op, c) ==
    [NoTask EXCEPT !.op = op, !.code = c,
                   !.kid0 = kernel_id, !.km0 = km, !.mid0 = Len(sent),
                   !.prevTimeout = (task[t].op = "execute" /\ task[t].how = "timeout")]

\* An exception leaves the handler.
Raise(r, where) ==
    [r EXCEPT !.pc = "raised", !.raisedAt = where, !.aw = None, !.mid1 = Len(sent)]

\* server.py:67  `if self.km is None:`
AlwaysStart(m) == TRUE
NeedsStart(m) == m = None

\* server.py:68  `self.km = AsyncKernelManager()`: a new manager with a worker to start
SpawnOn(ws) == Append(ws, "starting")

\* kc.execute(code) on client k, once per element of cs: the requests go
\* to the shell queue of k's worker, each under a fresh msg_id.
Requests(k, cs, t) ==
    [i \in 1..Len(cs) |-> [mid |-> Len(sent) + i, code |-> cs[i]]]
Sent(k, cs, t) ==
    [i \in 1..Len(cs) |-> [w |-> clients[k], client |-> k, code |-> cs[i], by |-> t,
                            kid |-> kernel_id']]

\* server.py:75  `self.kernel_id = str(uuid.uuid4())`, n ids drawn so far
KeepKernelId(old, n) == old
NewKernelId(old, n) == n + 1

\* server.py:73-74  the priming statements of ensure_started
Priming == <<IMPORTS, MATPLOTLIB_INLINE>>

\* server.py:177-185  msg_id = state.kc.execute(code), empty lists, first
\* get_iopub_msg() on the client k; pre is what the same step sent before.
EnterLoop(r, k, pre) ==
    [r EXCEPT !.pc = "recv", !.msg_id = Len(sent) + Len(pre) + 1, !.aw = k,
              !.outputs = <<>>, !.errors = <<>>, !.images = <<>>]

\* server.py:63-64  get_uptime
GetUptimeFlipped == start_time - clock
get_uptime == clock - start_time

\* server.py:223-233  one EmbeddedResource per collected image
ImageParts(imgs) ==
    [i \in 1..Len(imgs) |-> [mimeType |-> "image/png", blob |-> imgs[i]]]

\* server.py:211-233  the kernel info and the image resources of the result,
\* built when the loop has ended
Finish(r, how) ==
    [r EXCEPT !.pc = "done", !.how = how, !.aw = None, !.res_kid = kernel_id,
              !.res_up = get_uptime, !.res_images = ImageParts(r.images),
              !.mid1 = Len(sent)]

\* server.py:205-207  asyncio.TimeoutError: the notice, then break
OnTimeoutSilent(r) == Finish(r, "timeout")
OnTimeout(r) == Finish([r EXCEPT !.errors = Append(@, TimeoutNotice)], "timeout")

\* server.py:187  `if msg["parent_header"].get("msg_id") != msg_id: continue`
MatchesAny(msg, mid) == TRUE
MatchesUpTo(msg, mid) == msg.parent <= mid
Matches(msg, mid) == msg.parent = mid

\* server.py:202  the idle marker that ends the loop
IsIdle(msg) == msg.msg_type = "status" /\ msg.execution_state = "idle"

\* server.py:193-201  folding one message of the request into the three lists
FoldErrorHead(r, msg) ==
    CASE msg.msg_type \in {"stream", "execute_result"} ->
            [r EXCEPT !.outputs = Append(@, msg.text[1])]
      [] msg.msg_type = "display_data" ->
            IF msg.png # <<>> THEN [r EXCEPT !.images = Append(@, msg.png[1])] ELSE r
      [] msg.msg_type = "error" ->
            [r EXCEPT !.errors = Append(@, msg.traceback[1])]
      [] OTHER -> r
FoldPrepend(r, msg) ==
    CASE msg.msg_type \in {"stream", "execute_result"} ->
            [r EXCEPT !.outputs = <<msg.text[1]>> \o @]
      [] msg.msg_type = "display_data" ->
            IF msg.png # <<>> THEN [r EXCEPT !.images = Append(@, msg.png[1])] ELSE r
      [] msg.msg_type = "error" ->
            [r EXCEPT !.errors = @ \o msg.traceback]
      [] OTHER -> r
FoldImageToOutputs(r, msg) ==
    CASE msg.msg_type \in {"stream", "execute_result"} ->
            [r EXCEPT !.outputs = Append(@, msg.text[1])]
      [] msg.msg_type = "display_data" ->
            IF msg.png # <<>>
            THEN [r EXCEPT !.images = Append(@, msg.png[1]), !.outputs = Append(@, msg.png[1])]
            ELSE r
      [] msg.msg_type = "error" ->
            [r EXCEPT !.errors = @ \o msg.traceback]
      [] OTHER -> r
Fold(r, msg) ==
    CASE msg.msg_type = "stream" ->
            [r EXCEPT !.outputs = Append(@, msg.text[1])]
      [] msg.msg_type = "display_data" ->
            IF msg.png # <<>> THEN [r EXCEPT !.images = Append(@, msg.png[1])] ELSE r
      [] msg.msg_type = "execute_result" ->
            [r EXCEPT !.outputs = Append(@, msg.text[1])]
      [] msg.msg_type = "error" ->
            [r EXCEPT !.errors = @ \o msg.traceback]
      [] OTHER -> r

\* A discarded message that answers an earlier request of the same caller.
LateOwn(t, r, msg) ==
    /\ msg.parent # None
    /\ sent[msg.parent].by = t
    /\ sent[msg.parent].code \in codes
    /\ msg.parent < r.msg_id

\* server.py:183-185  the next iteration: state.kc is read again
NextReceive(r) ==
    IF kc = None THEN Raise(r, "loop") ELSE [r EXCEPT !.aw = kc]

\* ---------------------------------------------------------------- execute_python
\* server.py:175-185, up to the first await that suspends
ExecCall(t, c) ==
    /\ CanCall(t)
    /\ calls' = [calls EXCEPT !.execute = @ + 1]
    /\ UNCHANGED <<kernel_id, start_time, uuids, clock, clients, iopub, active, codes, kc>>
    /\ LET r == NewCall(t, "execute", c) IN
       IF NeedsStart(km)
       THEN /\ km' = Len(wstate) + 1
            /\ wstate' = SpawnOn(wstate)
            /\ shell' = Append(shell, <<>>)
            /\ cur' = Append(cur, <<>>)
            /\ ns' = Append(ns, {})
            /\ task' = [task EXCEPT ![t] = [r EXCEPT !.pc = "es_start", !.aw = Len(wstate) + 1]]
            /\ UNCHANGED sent
       ELSE IF kc = None
       THEN /\ task' = [task EXCEPT ![t] = Raise(r, "send")]
            /\ UNCHANGED <<km, wstate, shell, cur, ns, sent>>
       ELSE /\ shell' = [shell EXCEPT ![clients[kc]] = @ \o Requests(kc, <<c>>, t)]
            /\ sent' = sent \o Sent(kc, <<c>>, t)
            /\ task' = [task EXCEPT ![t] = EnterLoop(r, kc, <<>>)]
            /\ UNCHANGED <<km, wstate, cur, ns>>

\* server.py:185-203  one message arrives at the pending get_iopub_msg()
RecvMsg(t) ==
    /\ task[t].pc = "recv"
    /\ iopub[task[t].aw] # <<>>
    /\ LET msg == Head(iopub[task[t].aw])
           r == task[t]
       IN  /\ iopub' = [iopub EXCEPT ![r.aw] = Tail(@)]
           /\ task' = [task EXCEPT ![t] =
                IF ~Matches(msg, r.msg_id)
                THEN NextReceive([r EXCEPT !.late = @ \/ (r.prevTimeout /\ LateOwn(t, r, msg))])
                ELSE IF IsIdle(msg) THEN Finish(r, "idle")
                ELSE NextReceive(Fold(r, msg))]
    /\ UNCHANGED <<km, kc, kernel_id, start_time, uuids, clock, wstate, shell, cur, ns,
                   clients, sent, active, codes, calls>>

\* server.py:205-207  asyncio.TimeoutError: nothing arrived within 30 seconds
RecvTimeout(t) ==
    /\ task[t].pc = "recv"
    /\ iopub[task[t].aw] = <<>>
    /\ task' = [task EXCEPT ![t] = OnTimeout(@)]
    /\ UNCHANGED <<km, kc, kernel_id, start_time, uuids, clock, wstate, shell, cur, ns,
                   clients, iopub, sent, active, codes, calls>>

\* ---------------------------------------------------------------- ensure_started
\* server.py:69-72  start_kernel() has returned: create the client, start its
\* channels and wait for the handshake
StartKernelOK(t) ==
    /\ task[t].pc = "es_start"
    /\ wstate' = IF wstate[task[t].aw] = "starting"
                 THEN [wstate EXCEPT ![task[t].aw] = "running"] ELSE wstate
    /\ IF km = None
       THEN /\ task' = [task EXCEPT ![t] = Raise(@, "start")]
            /\ UNCHANGED <<kc, clients, iopub>>
       ELSE /\ clients' = Append(clients, km)
            /\ iopub' = Append(iopub, <<>>)
            /\ kc' = Len(clients) + 1
            /\ task' = [task EXCEPT ![t] = [@ EXCEPT !.pc = "es_ready", !.aw = Len(clients) + 1]]
    /\ UNCHANGED <<km, kernel_id, start_time, uuids, clock, shell, cur, ns, sent, active, codes, calls>>

\* server.py:69  start_kernel() raises
StartKernelFail(t) ==
    /\ task[t].pc = "es_start"
    /\ wstate' = IF wstate[task[t].aw] = "starting"
                 THEN [wstate EXCEPT ![task[t].aw] = "failed"] ELSE wstate
    /\ task' = [task EXCEPT ![t] = Raise(@, "start")]
    /\ UNCHANGED <<km, kc, kernel_id, start_time, uuids, clock, shell, cur, ns,
                   clients, iopub, sent, active, codes, calls>>

\* server.py:72-76  wait_for_ready() has returned: priming, new id and start
\* time; then the caller goes on (execute_python 177-185, restart_kernel 286)
ReadyOK(t) ==
    /\ task[t].pc = "es_ready"
    /\ wstate[clients[task[t].aw]] = "running"
    /\ UNCHANGED <<km, kc, clock, wstate, cur, ns, clients, iopub, active, codes, calls>>
    /\ IF kc = None
       THEN /\ task' = [task EXCEPT ![t] = Raise(@, "prime")]
            /\ UNCHANGED <<kernel_id, start_time, uuids, shell, sent>>
       ELSE /\ kernel_id' = NewKernelId(kernel_id, uuids)
            /\ uuids' = uuids + 1
            /\ start_time' = clock
            /\ LET cs == IF task[t].op = "execute"
                            THEN Priming \o <<task[t].code>> ELSE Priming
               IN  /\ shell' = [shell EXCEPT ![clients[kc]] = @ \o Requests(kc, cs, t)]
                   /\ sent' = sent \o Sent(kc, cs, t)
            /\ task' = [task EXCEPT ![t] =
                          IF @.op = "execute" THEN EnterLoop(@, kc, Priming)
                          ELSE [@ EXCEPT !.pc = "done", !.how = "restarted",
                                         !.aw = None, !.res_kid = kernel_id',
                                         !.mid1 = Len(sent) + Len(Priming)]]

\* server.py:72  wait_for_ready() raises: the worker of the awaited client
\* is not alive (it died, or it was never started)
ReadyFail(t) ==
    /\ task[t].pc = "es_ready"
    /\ wstate' = IF wstate[clients[task[t].aw]] = "running"
                 THEN [wstate EXCEPT ![clients[task[t].aw]] = "failed"] ELSE wstate
    /\ task' = [task EXCEPT ![t] = Raise(@, "ready")]
    /\ UNCHANGED <<km, kc, kernel_id, start_time, uuids, clock, shell, cur, ns,
                   clients, iopub, sent, active, codes, calls>>

\* ---------------------------------------------------------------- restart_kernel
\* server.py:280-281 (and 285, 67-69 when no manager is set)
RestartCall(t) ==
    /\ CanCall(t)
    /\ calls' = [calls EXCEPT !.restart = @ + 1]
    /\ LET r == NewCall(t, "restart", "") IN
       IF km # None
       THEN /\ task' = [task EXCEPT ![t] = [r EXCEPT !.pc = "shut", !.aw = km]]
            /\ UNCHANGED <<km, wstate, shell, cur, ns>>
       ELSE /\ km' = Len(wstate) + 1
            /\ wstate' = SpawnOn(wstate)
            /\ shell' = Append(shell, <<>>)
            /\ cur' = Append(cur, <<>>)
            /\ ns' = Append(ns, {})
            /\ task' = [task EXCEPT ![t] = [r EXCEPT !.pc = "es_start", !.aw = Len(wstate) + 1]]
    /\ UNCHANGED <<kc, kernel_id, start_time, uuids, clock, clients, iopub, sent, active, codes>>

\* server.py:281-285, 67-69  shutdown_kernel() has returned: clear both
\* references, then ensure_started spawns
ShutdownOK(t) ==
    /\ task[t].pc = "shut"
    /\ km' = Len(wstate) + 1
    /\ kc' = None
    /\ wstate' = SpawnOn([wstate EXCEPT ![task[t].aw] = "shutdown"])
    /\ shell' = Append(shell, <<>>)
    /\ cur' = Append(cur, <<>>)
    /\ ns' = Append(ns, {})
    /\ task' = [task EXCEPT ![t] = [@ EXCEPT !.pc = "es_start", !.aw = Len(wstate) + 1]]
    /\ UNCHANGED <<kernel_id, start_time, uuids, clock, clients, iopub, sent, active, codes, calls>>

\* server.py:281  shutdown_kernel() raises
ShutdownFail(t) ==
    /\ task[t].pc = "shut"
    /\ task' = [task EXCEPT ![t] = Raise(@, "shutdown")]
    /\ UNCHANGED <<km, kc, kernel_id, start_time, uuids, clock, wstate, shell, cur, ns,
                   clients, iopub, sent, active, codes, calls>>

\* ---------------------------------------------------------------- the worker and the clock
Publish(w, msg) ==
    [c \in 1..Len(clients) |-> IF clients[c] = w THEN Append(iopub[c], msg) ELSE iopub[c]]

\* x is defined in the namespace of the worker of manager w
HasX(w) == ns[w] # {}

\* The worker of manager w publishes its next message, picking up the next
\* request from its shell queue when the current one is finished.
KernelStep(w) ==
    /\ wstate[w] = "running"
    /\ IF cur[w] # <<>>
       THEN /\ iopub' = Publish(w, Head(cur[w]))
            /\ cur' = [cur EXCEPT ![w] = Tail(@)]
            /\ UNCHANGED <<shell, ns>>
       ELSE /\ shell[w] # <<>>
            /\ LET req == Head(shell[w])
                   msgs == Program(req.code, req.mid, HasX(w))
               IN  /\ iopub' = Publish(w, Head(msgs))
                   /\ cur' = [cur EXCEPT ![w] = Tail(msgs)]
                   /\ ns' = IF req.code = "setx"
                            THEN [ns EXCEPT ![w] = @ \cup {req.mid}] ELSE ns
            /\ shell' = [shell EXCEPT ![w] = Tail(@)]
    /\ UNCHANGED <<km, kc, kernel_id, start_time, uuids, clock, wstate, clients, sent,
                   task, active, codes, calls>>

Next ==
    \/ \E t \in Tasks, c \in codes : ExecCall(t, c)
    \/ \E t \in Tasks : RecvMsg(t)
    \/ \E t \in Tasks : RecvTimeout(t)
    \/ \E t \in Tasks : StartKernelOK(t)
    \/ \E t \in Tasks : StartKernelFail(t)
    \/ \E t \in Tasks : ReadyOK(t)
    \/ \E t \in Tasks : ReadyFail(t)
    \/ \E t \in Tasks : RestartCall(t)
    \/ \E t \in Tasks : ShutdownOK(t)
    \/ \E t \in Tasks : ShutdownFail(t)
    \/ \E w \in 1..Len(wstate) : KernelStep(w)

\* Two concurrent callers.
Spec == Init /\ [][Next]_vars
\* One caller issuing its calls one after the other.
SpecSeq == InitSeq /\ [][Next]_vars

\* time.time() advances between two steps of the event loop
MaxClock == 2
Tick ==
    /\ clock < MaxClock
    /\ clock' = clock + 1
    /\ UNCHANGED <<km, kc, kernel_id, start_time, uuids, wstate, shell, cur, ns,
                   clients, iopub, sent, task, active, codes, calls>>

\* pykernel_mcp.py:192-200  the text kernel_status returns
StatusReport ==
    IF km = None
    THEN [NoReport EXCEPT !.made = TRUE, !.at = calls.execute + calls.restart,
                          !.quiet = \A u \in active : Ended(task[u])]
    ELSE [NoReport EXCEPT !.made = TRUE, !.running = TRUE, !.id = kernel_id,
                          !.up = get_uptime, !.at = calls.execute + calls.restart,
                          !.quiet = \A u \in active : Ended(task[u])]

\* pykernel_mcp.py:184-200  kernel_status has no await: it runs in one step,
\* also while an execute_python or restart_kernel call of another caller is
\* suspended. Its caller keeps the report before the last one for comparison.
StatusCall(t) ==
    /\ t \notin active
    /\ task' = [task EXCEPT ![t] = [NoTask EXCEPT !.op = "status", !.pc = "done",
                                                  !.rep = StatusReport,
                                                  !.prev = task[t].rep]]
    /\ UNCHANGED <<km, kc, kernel_id, start_time, uuids, clock, wstate, shell, cur,
                   ns, clients, iopub, sent, active, codes, calls>>

\* One caller of execute_python and restart_kernel, one of kernel_status,
\* and a clock that advances.
InitTimed == InitState /\ active = {1} /\ codes = {"setx"}
NextTimed ==
    \/ Next
    \/ Tick
    \/ \E t \in Tasks : StatusCall(t)
SpecTimed == InitTimed /\ [][NextTimed]_vars

\* server.py:185-188  the worker of manager w publishes a message that
\* belongs to no request of the server (a status message with an empty
\* parent header, the output of a background thread); a client queue holds
\* at most MaxQueue messages.
MaxQueue == 2
Chatter(w) ==
    /\ wstate[w] = "running"
    /\ \A c \in 1..Len(clients) : clients[c] = w => Len(iopub[c]) < MaxQueue
    /\ iopub' = Publish(w, Stream(None, "noise"))
    /\ UNCHANGED <<km, kc, kernel_id, start_time, uuids, clock, wstate, shell, cur, ns,
                   clients, sent, task, active, codes, calls>>

\* One caller and a worker that may publish such messages at any time. The
\* event loop resumes a pending get_iopub_msg() when a message is queued and
\* fires its 30 second timer when none arrives; nothing is assumed of the worker.
InitLive == InitState /\ active = {1} /\ codes = {"setx"}
NextLive ==
    \/ Next
    \/ \E w \in 1..Len(wstate) : Chatter(w)
SpecLive ==
    /\ InitLive /\ [][NextLive]_vars
    /\ \A t \in Tasks : WF_vars(RecvMsg(t)) /\ WF_vars(RecvTimeout(t))

\* ================================================================ properties
ExecTasks == {t \in Tasks : task[t].op = "execute"}
InLoop(t) == task[t].op = "execute" /\ task[t].pc = "recv"
Entries(q) == {q[i] : i \in 1..Len(q)}

\* C1: every entry of a call's outputs, errors and images comes from a
\* message whose parent msg_id is the msg_id of the call's own kc.execute;
\* the only other entry is the timeout notice, in errors.
OwnMessagesOnly ==
    \A t \in ExecTasks :
        /\ \A e \in Entries(task[t].outputs) \cup Entries(task[t].images) :
               e.src = task[t].msg_id
        /\ \A e \in Entries(task[t].errors) :
               e.src = task[t].msg_id \/ e = TimeoutNotice

\* Two calls whose requests were outstanding at the same time on one client
\* both hold output, and one of them has ended at its idle marker.
OwnMessagesOnlyWitness ==
    \E t \in ExecTasks, u \in ExecTasks :
        /\ task[t].pc = "done" /\ task[t].how = "idle"
        /\ task[t].outputs # <<>> /\ task[u].outputs # <<>>
        /\ task[t].msg_id < task[u].msg_id /\ task[u].msg_id <= task[t].mid1
        /\ sent[task[t].msg_id].client = sent[task[u].msg_id].client

\* C2: at most one execute_python call is between its kc.execute and the
\* end of its receive loop.
OneCallInLoop == Cardinality({t \in Tasks : InLoop(t)}) <= 1

\* C3: restart_kernel does not complete the shutdown and clear km and kc
\* while an execute_python call is inside its receive loop.
RestartWaitsForLoop ==
    [][(\E r \in Tasks : ShutdownOK(r)) => ~(\E t \in Tasks : InLoop(t))]_vars

\* C4: an execute_python call that has sent its request never raises.
ExecuteNeverRaises ==
    \A t \in ExecTasks : ~(task[t].pc = "raised" /\ task[t].raisedAt = "loop")

\* ---------------------------------------------------------------- restart
RestartsDone == {t \in Tasks : task[t].op = "restart" /\ task[t].pc = "done"}

\* C5: when restart_kernel has returned, kernel_id (and the id it reports)
\* differs from the id the call found, the worker the call found is shut
\* down and no longer referenced, and the worker that serves any request
\* issued after the return holds no variable defined by a request issued
\* before the restart was called.
RestartClearsState ==
    \A t \in RestartsDone :
        /\ kernel_id # task[t].kid0
        /\ task[t].res_kid # task[t].kid0
        /\ task[t].km0 # None => (wstate[task[t].km0] = "shutdown" /\ km # task[t].km0)
        /\ \A m \in 1..Len(sent) :
               m > task[t].mid1 => \A d \in ns[sent[m].w] : d > task[t].mid0

\* x was defined on the worker the restart found, and a getx issued after the
\* restart returned ended at its idle marker with the NameError traceback.
RestartClearsStateWitness ==
    \E t \in RestartsDone, u \in ExecTasks :
        /\ task[t].km0 # None
        /\ \E d \in ns[task[t].km0] : d <= task[t].mid0
        /\ task[u].code = "getx" /\ task[u].pc = "done" /\ task[u].how = "idle"
        /\ task[u].msg_id > task[t].mid1
        /\ task[u].errors # <<>>

\* C7: when shutdown_kernel has ended, normally or not, restart_kernel has
\* cleared the old references and is spawning a fresh worker.
RestartAlwaysRespawns ==
    [][\A t \in Tasks :
          (task[t].pc = "shut" /\ task'[t].pc # "shut")
             => /\ km' \notin {None, task[t].aw}
                /\ kc' = None
                /\ wstate'[km'] = "starting"
                /\ task'[t].pc = "es_start"]_vars

\* C8: when start_kernel or wait_for_ready fails inside ensure_started, the
\* session is left not started: km and kc are both None.
FailedStartLeavesNotStarted ==
    [][\A t \in Tasks :
          (task[t].pc \in {"es_start", "es_ready"} /\ task'[t].pc = "raised"
              /\ task'[t].raisedAt \in {"start", "ready"})
             => (km' = None /\ kc' = None)]_vars

\* ---------------------------------------------------------------- ensure_started
PrimingsSent(c) == Cardinality({m \in 1..Len(sent) : sent[m].code = c})
NoEffectOnSession ==
    /\ km' = km /\ kc' = kc /\ kernel_id' = kernel_id /\ start_time' = start_time
    /\ wstate' = wstate /\ clients' = clients
    /\ PrimingsSent(IMPORTS)' = PrimingsSent(IMPORTS)
    /\ PrimingsSent(MATPLOTLIB_INLINE)' = PrimingsSent(MATPLOTLIB_INLINE)
CallsWhileAlive(t) ==
    /\ km # None
    /\ Ended(task[t]) /\ ~Ended(task'[t]) /\ task'[t].op = "execute"

\* C9 as stated: without a restart, once execute_python calls were made and
\* all have ended, exactly one worker was spawned and the priming statements
\* were sent exactly once.
StartedExactlyOnce ==
    (calls.restart = 0 /\ calls.execute > 0 /\ \A t \in Tasks : Ended(task[t]))
        => /\ Len(wstate) = 1
           /\ PrimingsSent(IMPORTS) = 1 /\ PrimingsSent(MATPLOTLIB_INLINE) = 1

\* C9 amended: an execute_python call made while a manager is set spawns
\* nothing, sends no priming and leaves km, kc, kernel_id and start_time
\* alone; without a restart at most one worker is spawned and the priming is
\* sent at most once, exactly once when the startup has succeeded.
EnsureStartedIdempotent ==
    /\ [](calls.restart = 0 =>
            /\ Len(wstate) <= 1
            /\ PrimingsSent(IMPORTS) <= 1 /\ PrimingsSent(MATPLOTLIB_INLINE) <= 1
            /\ calls.execute > 0 => Len(wstate) = 1
            /\ kernel_id # 1 =>
                  (PrimingsSent(IMPORTS) = 1 /\ PrimingsSent(MATPLOTLIB_INLINE) = 1))
    /\ [][\A t \in Tasks : CallsWhileAlive(t) => NoEffectOnSession]_vars

\* Without a restart, a second call found the worker alive and ended at its
\* idle marker.
EnsureStartedIdempotentWitness ==
    /\ calls.restart = 0 /\ calls.execute >= 2
    /\ Len(wstate) = 1 /\ PrimingsSent(IMPORTS) = 1
    /\ \E t \in ExecTasks :
          task[t].km0 # None /\ task[t].pc = "done" /\ task[t].how = "idle"

\* ---------------------------------------------------------------- results
RECURSIVE Concat(_, _)
Concat(ms, f) == IF ms = <<>> THEN <<>> ELSE Head(ms)[f] \o Concat(Tail(ms), f)

\* What the worker publishes for the request of call t.
Answer(t) ==
    Program(task[t].code, task[t].msg_id,
            \E d \in ns[sent[task[t].msg_id].w] : d < task[t].msg_id)
AtIdle(t) == task[t].op = "execute" /\ task[t].pc = "done" /\ task[t].how = "idle"
Complete(t) ==
    /\ task[t].outputs = Concat(Answer(t), "text")
    /\ task[t].errors = Concat(Answer(t), "traceback")
    /\ task[t].images = Concat(Answer(t), "png")

\* C6: a receive that times out ends the call with the notice appended to
\* errors and leaves km, kc and the workers as they are; a following call
\* that reaches its idle marker holds exactly its own output.
TimeoutKeepsSession ==
    /\ [][\A t \in Tasks :
            (InLoop(t) /\ task'[t].pc = "done" /\ task'[t].how = "timeout")
               => /\ km' = km /\ kc' = kc /\ wstate' = wstate
                  /\ task'[t].errors = Append(task[t].errors, TimeoutNotice)
                  /\ task'[t].outputs = task[t].outputs]_vars
    /\ [](\A t \in Tasks : (AtIdle(t) /\ task[t].prevTimeout) => Complete(t))

\* The call after a timed-out call discarded a late message of that call and
\* ended at its idle marker with output.
TimeoutKeepsSessionWitness ==
    \E t \in Tasks :
        /\ AtIdle(t) /\ task[t].prevTimeout /\ task[t].late
        /\ task[t].outputs # <<>>

\* C10: for code that raises, errors holds the traceback lines in order and
\* outputs the text printed before and after the error message; the error
\* message does not end the loop.
HasError(ms) == \E i \in 1..Len(ms) : ms[i].msg_type = "error"
FaultKeepsAggregating ==
    /\ [](\A t \in Tasks : (AtIdle(t) /\ HasError(Answer(t))) =>
              /\ task[t].errors # <<>>
              /\ task[t].errors = Concat(Answer(t), "traceback")
              /\ task[t].outputs = Concat(Answer(t), "text"))
    /\ [][\A t \in Tasks :
            (InLoop(t) /\ Len(task'[t].errors) > Len(task[t].errors)
                /\ task'[t].how # "timeout")
               => (task'[t].pc = "recv" /\ task'[t].outputs = task[t].outputs)]_vars

FaultKeepsAggregatingWitness ==
    \E t \in Tasks :
        /\ AtIdle(t) /\ HasError(Answer(t))
        /\ Len(task[t].errors) = 2 /\ Len(task[t].outputs) = 2
        /\ task[t].outputs[1].val = "a" /\ task[t].outputs[2].val = "b"

\* C11: outputs is, in arrival order, the text of the stream and
\* execute_result messages of the request received so far, all of them at
\* the idle marker; for code that raises nothing, errors is empty.
IsPrefix(a, b) == Len(a) <= Len(b) /\ a = SubSeq(b, 1, Len(a))
OutputsInArrivalOrder ==
    \A t \in ExecTasks :
        task[t].msg_id # None =>
            /\ IsPrefix(task[t].outputs, Concat(Answer(t), "text"))
            /\ AtIdle(t) =>
                  /\ task[t].outputs = Concat(Answer(t), "text")
                  /\ ~HasError(Answer(t)) => task[t].errors = <<>>

\* Code that only prints has ended at its idle marker with its text.
OutputsInArrivalOrderWitness ==
    \E t \in Tasks :
        /\ AtIdle(t) /\ task[t].code = "setx"
        /\ task[t].outputs = <<Text(task[t].msg_id, "a")>>
        /\ task[t].errors = <<>> /\ task[t].images = <<>>

StatusStep(t) == task'[t].op = "status" /\ task'[t] # task[t]
StatusIsPure ==
    /\ [][(\E t \in Tasks : StatusStep(t))
            => UNCHANGED <<km, kc, kernel_id, start_time, uuids, wstate, shell, cur,
                           ns, clients, iopub, sent>>]_vars
    /\ [](\A t \in Tasks :
            (/\ task[t].op = "status" /\ task[t].prev.made
             /\ task[t].prev.quiet /\ task[t].prev.at = task[t].rep.at)
               => /\ task[t].rep.running = task[t].prev.running
                  /\ task[t].rep.id = task[t].prev.id
                  /\ task[t].rep.up >= task[t].prev.up)

\* Two reports of a started session with nothing between them but time.
StatusIsPureWitness ==
    \E t \in Tasks :
        /\ task[t].op = "status" /\ task[t].prev.made
        /\ task[t].prev.quiet /\ task[t].prev.at = task[t].rep.at
        /\ task[t].rep.running /\ task[t].rep.id = kernel_id /\ kernel_id # 1
        /\ start_time > 0
        /\ task[t].rep.up > task[t].prev.up

\* C14: no message of a priming request (the default imports, the inline
\* magic), its idle marker included, adds an entry to the lists of an
\* execute_python call or ends its loop; no entry of any list stems from a
\* priming request.
IsPriming(mid) == mid # None /\ sent[mid].code \in {IMPORTS, MATPLOTLIB_INLINE}
PrimingTaken(t) ==
    /\ InLoop(t) /\ iopub[task[t].aw] # <<>>
    /\ iopub'[task[t].aw] = Tail(iopub[task[t].aw])
    /\ IsPriming(Head(iopub[task[t].aw]).parent)
PrimingNeverExposed ==
    /\ [](\A t \in ExecTasks :
            \A e \in Entries(task[t].outputs) \cup Entries(task[t].errors)
                       \cup Entries(task[t].images) : ~IsPriming(e.src))
    /\ [][\A t \in Tasks :
            PrimingTaken(t) => /\ task'[t].outputs = task[t].outputs
                               /\ task'[t].errors = task[t].errors
                               /\ task'[t].images = task[t].images
                               /\ task'[t].pc # "done"]_vars

\* The call that started the session, its request following the two
\* priming requests on the same client, has ended at its own idle marker
\* with its output.
PrimingNeverExposedWitness ==
    \E t \in Tasks :
        /\ AtIdle(t) /\ task[t].msg_id = 3 /\ task[t].outputs # <<>>
        /\ sent[1].code = IMPORTS /\ sent[2].code = MATPLOTLIB_INLINE
        /\ sent[1].client = sent[3].client /\ sent[2].client = sent[3].client
        /\ iopub[sent[3].client] = <<>>

\* C15: the session id in the result of an execute_python call is the id of
\* the session of the worker the call sent its request to, also when a
\* restart_kernel ran between the kc.execute and the result. The id of a
\* worker's session is the one drawn when the worker was primed; the calls
\* looked at are those that sent their request to a primed worker.
Primed(w) == {i \in 1..Len(sent) : sent[i].w = w /\ sent[i].code = IMPORTS}
SessionOf(w) == sent[CHOOSE i \in Primed(w) : \A j \in Primed(w) : j <= i].kid
ResultNamesOwnSession ==
    \A t \in ExecTasks :
        (/\ task[t].pc = "done"
         /\ \E i \in Primed(sent[task[t].msg_id].w) : i < task[t].msg_id)
            => task[t].res_kid = SessionOf(sent[task[t].msg_id].w)

\* C16: the receive loop of every execute_python call eventually ends,
\* whatever the worker publishes.
LoopEnds == \A t \in Tasks : InLoop(t) ~> ~InLoop(t)

\* C17: no message of a request is lost to another call: a call that ends
\* at its idle marker holds all the output the worker published for it.
NoMessageLost == \A t \in Tasks : AtIdle(t) => Complete(t)

\* C18: ensure_started never returns without a client bound: the kc.execute
\* of execute_python never runs against state.kc = None.
EnsureStartedBindsClient ==
    \A t \in ExecTasks : ~(task[t].pc = "raised" /\ task[t].raisedAt = "send")

\* C19: every spawned worker that has not been shut down is the one
\* state.km refers to.
Alive(w) == wstate[w] \in {"starting", "running"}
NoOrphanWorker == \A w \in 1..Len(wstate) : Alive(w) => km = w

====
